---- MODULE Spec2Model ----
(***************************************************************************)
(* A model of GNU cmp (src/src/cmp.c): main(), cmp(), the two block        *)
(* comparators, sprintc() and file_position().                             *)
(*                                                                         *)
(* A byte is a number in 0..255.  A stream is a finite sequence of bytes.  *)
(* The two read buffers are one allocation (buffer[1] = buffer[0] +        *)
(* words_per_buffer), modelled as one byte array `mem'.                    *)
(***************************************************************************)
EXTENDS Integers, Sequences, FiniteSets, TLC

(* ---------------------------------------------------------------- bounds *)

\* Longest stream (in bytes) cmp () is run on.
MaxLen == 3

\* Longest operand (in bytes) the whole program is run on.
MaxFileLen == 2

\* Largest buf_size (the block size buffer_lcm yields) that is enumerated.
MaxBuf == 2

\* Largest --ignore-initial value that is enumerated.
MaxIgnore == 2

\* sizeof (word) of the modelled build.
WordSize == 2

(* ------------------------------------------------------------- constants *)

\* '\n'
NL == 10

\* The bytes streams are made of: newline and 'a'.
Alphabet == {NL, 97}

\* What malloc'ed memory may hold before the first read (one fill value).
Garbage == {NL, 255 - NL}

type_first_diff == "type_first_diff"
type_all_diffs == "type_all_diffs"
type_status == "type_status"
Types == {type_first_diff, type_all_diffs, type_status}

(* --------------------------------------------------------------- helpers *)

MIN(a, b) == IF a < b THEN a ELSE b

MAX(a, b) == IF a < b THEN b ELSE a

\* ~ on a char
Complement(b) == 255 - b

StreamsTo(n) == UNION {[1..k -> Alphabet] : k \in 0..n}

Streams == StreamsTo(MaxLen)

FileStreams == StreamsTo(MaxFileLen)

\* The block size buffer_lcm yields in the runs of the whole program: no
\* operand there is longer than one block.
BlockSizes == {MaxBuf}

\* The operand pairs: two names, FILE2 given as "-", the same name twice.
Pair(a, b) == [g \in 0..1 |-> IF g = 0 THEN a ELSE b]

Operands == {Pair("a", "b"), Pair("a", "-"), Pair("a", "a"), Pair("-", "-")}

(* ----------------------------------------------------------------- state *)

VARIABLES
  pc,              \* where the process is
  file,            \* file[0..1]: the operands' names
  data,            \* data[f]: the bytes of operand f, from its initial position
  kind,            \* kind[f]: "reg" (regular file, lseek works) or "pipe"
  same_inode,      \* whether the two operands are one file (same_file () > 0)
  stdout_null,     \* whether standard output is the null device
  requested,       \* the comparison type the options asked for
  comparison_type, \* the comparison type in force
  ignore_initial,
  buf_size,
  opened,          \* opened[f]: file_desc[f] holds a descriptor
  closed,          \* closed[f]: close (file_desc[f]) returned 0
  offset,          \* offset[f]: the descriptor's file offset
  positioned,      \* file_position's static positioned[]
  position,        \* file_position's static position[]
  mem,             \* the two buffers, buffer[0] first
  f,               \* loop index of main's and cmp's for loops
  ig,              \* cmp's ig: bytes left to discard
  line_number,
  char_number,
  read0,
  read1,
  first_diff,
  ret,
  did_read,        \* whether read () or block_read () was called
  out,             \* the lines printed on standard output
  err,             \* the lines printed on standard error
  exit_status,     \* cmp ()'s result, then the process's exit status
  exit_path,       \* which exit the process took
  sp               \* sprintc's arguments and result

vars == <<pc, file, data, kind, same_inode, stdout_null, requested,
          comparison_type, ignore_initial, buf_size, opened, closed, offset,
          positioned, position, mem, f, ig, line_number, char_number, read0,
          read1, first_diff, ret, did_read, out, err, exit_status, exit_path,
          sp>>

envVars == <<file, data, kind, same_inode, stdout_null, requested,
             ignore_initial, buf_size>>

cmpVars == <<line_number, char_number, read0, read1, first_diff, ret>>

(* ------------------------------------------------------------- buffers *)

words_per_buffer(bs) == (bs + 2 * WordSize - 1) \div WordSize

\* Bytes in one buffer; buf1 starts at this index of mem.
BufBytes(bs) == WordSize * words_per_buffer(bs)

MemIndex(bs) == 0 .. (2 * BufBytes(bs) - 1)

\* buf0[i] and buf1[i]
Buf0(m, bs, i) == m[i]

Buf1(m, bs, i) == m[BufBytes(bs) + i]

\* Both sentinels computed from the buffers as read (the fault C2 must
\* detect): with read0 = read1 the two written bytes may be equal.
SentinelsSimultaneous(m, bs, r0, r1) ==
  [m EXCEPT ![r0] = Complement(m[BufBytes(bs) + r0]),
            ![BufBytes(bs) + r1] = Complement(m[r1])]

\* buf0[read0] = ~buf1[read0]; buf1[read1] = ~buf0[read1];
Sentinels(m, bs, r0, r1) ==
  LET m1 == [m EXCEPT ![r0] = Complement(Buf1(m, bs, r0))]
  IN  [m1 EXCEPT ![BufBytes(bs) + r1] = Complement(Buf0(m1, bs, r1))]

\* *l0 == *l1 for the words at word index l
WordEq(m, bs, l) ==
  \A j \in 0..(WordSize - 1) :
    Buf0(m, bs, l * WordSize + j) = Buf1(m, bs, l * WordSize + j)

\* A word loop that counts no newline (the fault C1 must detect).
WordNewlinesNone(m, bs, l) == 0

\* The inner loop of block_compare_and_count: l ^= nnnn, then one count per
\* zero byte of l, that is per byte of the word that equals '\n'.
WordNewlines(m, bs, l) ==
  Cardinality({j \in 0..(WordSize - 1) : Buf0(m, bs, l * WordSize + j) = NL})

\* The word loop: the index of the first word that differs.  A scan that
\* leaves the words_per_buffer words of a buffer is reported as an overrun.
RECURSIVE WordScan(_, _, _, _)
WordScan(m, bs, l, cnt) ==
  IF l >= words_per_buffer(bs)
  THEN [l |-> l, cnt |-> cnt, overrun |-> TRUE]
  ELSE IF WordEq(m, bs, l)
       THEN WordScan(m, bs, l + 1, cnt + WordNewlines(m, bs, l))
       ELSE [l |-> l, cnt |-> cnt, overrun |-> FALSE]

\* The byte loop: the index of the first byte that differs, from byte c on.
RECURSIVE ByteScan(_, _, _, _)
ByteScan(m, bs, c, cnt) ==
  IF c >= BufBytes(bs)
  THEN [offset |-> c, count |-> cnt, overrun |-> TRUE]
  ELSE IF Buf0(m, bs, c) = Buf1(m, bs, c)
       THEN ByteScan(m, bs, c + 1,
                     cnt + (IF Buf0(m, bs, c) = NL THEN 1 ELSE 0))
       ELSE [offset |-> c, count |-> cnt, overrun |-> FALSE]

block_compare_and_count(m, bs) ==
  LET w == WordScan(m, bs, 0, 0)
  IN  IF w.overrun
      THEN [offset |-> w.l * WordSize, count |-> w.cnt, overrun |-> TRUE]
      ELSE ByteScan(m, bs, w.l * WordSize, w.cnt)

\* block_compare without its byte loop (the fault C9 must detect).
block_compare_words(m, bs) ==
  [offset |-> WordScan(m, bs, 0, 0).l * WordSize,
   overrun |-> WordScan(m, bs, 0, 0).overrun]

block_compare(m, bs) ==
  LET w == WordScan(m, bs, 0, 0)
      b == ByteScan(m, bs, w.l * WordSize, 0)
  IN  IF w.overrun
      THEN [offset |-> w.l * WordSize, overrun |-> TRUE]
      ELSE [offset |-> b.offset, overrun |-> b.overrun]

(* ------------------------------------------------------- file_position *)

\* lseek (file_desc[g], ignore_initial, SEEK_CUR): the new offset, or -1 on
\* a descriptor that cannot seek.
lseek(g, off) == IF kind[g] = "reg" THEN off[g] + ignore_initial ELSE -1

\* file_position that seeks at every call (the fault C5 must detect).
file_position_again(st, g) ==
  [positioned |-> [st.positioned EXCEPT ![g] = TRUE],
   position |-> [st.position EXCEPT ![g] = lseek(g, st.offset)],
   offset |-> IF lseek(g, st.offset) = -1
              THEN st.offset
              ELSE [st.offset EXCEPT ![g] = lseek(g, st.offset)]]

\* file_position (g) on the statics st = [positioned, position, offset]:
\* the statics after the call.  The call's value is position[g] of those.
file_position(st, g) ==
  IF st.positioned[g]
  THEN st
  ELSE [positioned |-> [st.positioned EXCEPT ![g] = TRUE],
        position |-> [st.position EXCEPT ![g] = lseek(g, st.offset)],
        offset |-> IF lseek(g, st.offset) = -1
                   THEN st.offset
                   ELSE [st.offset EXCEPT ![g] = lseek(g, st.offset)]]

Statics == [positioned |-> positioned, position |-> position, offset |-> offset]

(* ----------------------------------------------------------------- main *)

\* exit (status) and error (2, ...): the process is over.
Exit(status, path) ==
  /\ pc' = "exit"
  /\ exit_status' = status
  /\ exit_path' = path

\* error (2, errno, "%s", file[g])
ErrorLine(g) == [type |-> "error", file |-> g]

InitProgram ==
  /\ pc = "open"
  /\ file \in Operands
  /\ data \in [0..1 -> FileStreams]
  /\ kind \in [0..1 -> {"reg", "pipe"}]
  /\ same_inode \in BOOLEAN
  /\ file[0] = file[1] => same_inode
  /\ same_inode => data[0] = data[1] /\ kind[0] = kind[1]
  /\ requested \in Types
  /\ comparison_type = requested
  /\ ignore_initial \in 0..MaxIgnore
  /\ stdout_null = FALSE
  /\ buf_size = 0
  /\ opened = [g \in 0..1 |-> FALSE]
  /\ closed = [g \in 0..1 |-> FALSE]
  /\ offset = [g \in 0..1 |-> 0]
  /\ positioned = [g \in 0..1 |-> FALSE]
  /\ position = [g \in 0..1 |-> 0]
  /\ mem = <<>>
  /\ f = 0
  /\ ig = 0
  /\ line_number = 0
  /\ char_number = 0
  /\ read0 = 0
  /\ read1 = 0
  /\ first_diff = 0
  /\ ret = 0
  /\ did_read = FALSE
  /\ out = <<>>
  /\ err = <<>>
  /\ exit_status = -1
  /\ exit_path = "none"
  /\ sp = [c |-> 0, width |-> 0, buf |-> <<>>]

\* int f1 = f ^ (strcmp (file[1], "-") == 0);
OpenIndex == IF file[1] = "-" THEN 1 - f ELSE f

\* One iteration of main's first for loop, the open and the fstat succeeding.
OpenFile ==
  /\ pc = "open"
  /\ IF f = 1 /\ file[0] = file[1]
     THEN /\ Exit(0, "same_name")
          /\ UNCHANGED <<opened, f>>
     ELSE /\ opened' = [opened EXCEPT ![OpenIndex] = TRUE]
          /\ f' = IF f = 1 THEN 0 ELSE 1
          /\ pc' = IF f = 1 THEN "shortcut" ELSE "open"
          /\ UNCHANGED <<exit_status, exit_path>>
  /\ UNCHANGED <<envVars, comparison_type, closed, offset, positioned,
                 position, mem, ig, cmpVars, did_read, out, err, sp>>

\* open () fails on a named operand: no message under -s.
OpenError ==
  /\ pc = "open"
  /\ ~(f = 1 /\ file[0] = file[1])
  /\ file[OpenIndex] # "-"
  /\ err' = IF comparison_type = type_status
            THEN err
            ELSE Append(err, ErrorLine(OpenIndex))
  /\ Exit(2, "open_error")
  /\ UNCHANGED <<envVars, comparison_type, opened, closed, offset, positioned,
                 position, mem, f, ig, cmpVars, did_read, out, sp>>

\* The descriptor is there and fstat () fails.
FstatError ==
  /\ pc = "open"
  /\ ~(f = 1 /\ file[0] = file[1])
  /\ opened' = [opened EXCEPT ![OpenIndex] = TRUE]
  /\ err' = Append(err, ErrorLine(OpenIndex))
  /\ Exit(2, "fstat_error")
  /\ UNCHANGED <<envVars, comparison_type, closed, offset, positioned,
                 position, mem, f, ig, cmpVars, did_read, out, sp>>

\* s0 != s1 without the clamp (the fault C10 must detect).
SizesDifferUnclamped(st) ==
  (Len(data[0]) - st.position[0]) # (Len(data[1]) - st.position[1])

\* MAX (0, s0) != MAX (0, s1), st the statics after both file_position calls
SizesDiffer(st) ==
  MAX(0, Len(data[0]) - st.position[0]) # MAX(0, Len(data[1]) - st.position[1])

\* Lines 226-272 of main: the same-inode exit, the null-device upgrade, the
\* size test, the buffers' allocation, and the first lines of cmp ().
Prepare ==
  /\ pc = "shortcut"
  /\ \E null \in (IF comparison_type # type_status THEN BOOLEAN ELSE {FALSE}),
        bs \in BlockSizes, fill \in Garbage :
       LET st1 == IF same_inode
                  THEN file_position(file_position(Statics, 0), 1)
                  ELSE Statics
           same == same_inode /\ st1.position[0] = st1.position[1]
           ct == IF null THEN type_status ELSE comparison_type
           sized == ct = type_status /\ kind[0] = "reg" /\ kind[1] = "reg"
           st2 == IF sized
                  THEN file_position(file_position(st1, 0), 1)
                  ELSE st1
       IN  IF same
           THEN /\ Exit(0, "same_inode")
                /\ positioned' = st1.positioned
                /\ position' = st1.position
                /\ offset' = st1.offset
                /\ UNCHANGED <<stdout_null, comparison_type, buf_size, mem,
                               line_number, char_number, ret>>
           ELSE /\ stdout_null' = null
                /\ comparison_type' = ct
                /\ positioned' = st2.positioned
                /\ position' = st2.position
                /\ offset' = st2.offset
                /\ IF sized /\ SizesDiffer(st2)
                   THEN /\ Exit(1, "size")
                        /\ UNCHANGED <<buf_size, mem, line_number,
                                       char_number, ret>>
                   ELSE /\ buf_size' = bs
                        /\ mem' = [i \in MemIndex(bs) |-> fill]
                        /\ line_number' = 1
                        /\ char_number' = ignore_initial + 1
                        /\ ret' = 0
                        /\ pc' = IF ignore_initial # 0 THEN "skip" ELSE "read"
                        /\ UNCHANGED <<exit_status, exit_path>>
  /\ UNCHANGED <<file, data, kind, same_inode, requested, ignore_initial,
                 opened, closed, f, ig, read0, read1, first_diff, did_read,
                 out, err, sp>>

(* ------------------------------------------------------------------ cmp *)

\* Bytes of operand g that lie at or after offset off[g].
Avail(g, off) == MAX(0, Len(data[g]) - off[g])

\* block_read (file_desc[g], buf, buf_size): reads until the block is full
\* or the stream ends; the number of bytes read.
block_read(g, off, bs) == MIN(bs, Avail(g, off))

\* The memory after r bytes of operand g, from offset off[g], went to
\* mem[base .. base + r - 1].
Fill(m, base, g, off, r) ==
  [i \in DOMAIN m |->
     IF base <= i /\ i < base + r THEN data[g][off[g] + (i - base) + 1] ELSE m[i]]

\* Next stream of cmp's skipping loop, or the read loop after the last.
NextSkip ==
  /\ f' = IF f = 1 THEN 0 ELSE 1
  /\ pc' = IF f = 1 THEN "read" ELSE "skip"

\* One iteration of "for (f = 0; f < 2; f++) if (file_position (f) == -1)".
SkipInitial ==
  /\ pc = "skip"
  /\ LET st == file_position(Statics, f)
     IN  /\ positioned' = st.positioned
         /\ position' = st.position
         /\ offset' = st.offset
         /\ IF st.position[f] = -1
            THEN /\ ig' = ignore_initial
                 /\ pc' = "discard"
                 /\ f' = f
            ELSE /\ NextSkip
                 /\ ig' = ig
  /\ UNCHANGED <<envVars, comparison_type, opened, closed, mem, cmpVars,
                 did_read, out, err, exit_status, exit_path, sp>>

\* One read () of the discarding loop: r bytes arrive, 0 only at the end of
\* the stream; a pipe may deliver fewer bytes than asked for.
DiscardRead ==
  /\ pc = "discard"
  /\ \E r \in 0..MIN(MIN(ig, buf_size), Avail(f, offset)) :
       /\ (r = 0) = (Avail(f, offset) = 0)
       /\ mem' = Fill(mem, 0, f, offset, r)
       /\ offset' = [offset EXCEPT ![f] = @ + r]
       /\ ig' = IF r = 0 THEN ig ELSE ig - r
       /\ IF r = 0 \/ ig - r = 0
          THEN NextSkip
          ELSE UNCHANGED <<pc, f>>
  /\ did_read' = TRUE
  /\ UNCHANGED <<envVars, comparison_type, opened, closed, positioned,
                 position, cmpVars, out, err, exit_status, exit_path, sp>>

\* read () fails while discarding: error (2, errno, "%s", file[f]).
DiscardError ==
  /\ pc = "discard"
  /\ did_read' = TRUE
  /\ err' = Append(err, ErrorLine(f))
  /\ Exit(2, "read_error")
  /\ UNCHANGED <<envVars, comparison_type, opened, closed, offset, positioned,
                 position, mem, f, ig, cmpVars, out, sp>>

\* A block's first differing byte only (the fault C4 must detect).
AllDiffLinesFirstOnly(m, bs, first, smaller, cn) ==
  <<[type |-> "byte", char |-> cn, c0 |-> Buf0(m, bs, first),
     c1 |-> Buf1(m, bs, first)]>>

\* The do-while of type_all_diffs: one line per position in
\* first .. smaller - 1 whose bytes differ, cn the position's char_number.
RECURSIVE AllDiffLines(_, _, _, _, _)
AllDiffLines(m, bs, first, smaller, cn) ==
  IF first >= smaller
  THEN <<>>
  ELSE (IF Buf0(m, bs, first) # Buf1(m, bs, first)
        THEN <<[type |-> "byte", char |-> cn, c0 |-> Buf0(m, bs, first),
                c1 |-> Buf1(m, bs, first)]>>
        ELSE <<>>)
       \o AllDiffLines(m, bs, first + 1, smaller, cn + 1)

\* The line of type_first_diff.
DifferLine(m, bs, first, cn, ln) ==
  [type |-> "differ", char |-> cn, line |-> ln, c0 |-> Buf0(m, bs, first),
   c1 |-> Buf1(m, bs, first)]

\* The diagnostic naming the longer operand (the fault C3 must detect).
EofLineSwapped(r0, r1) == [type |-> "eof", file |-> IF r0 < r1 THEN 1 ELSE 0]

\* cmp: EOF on file[read1 < read0]
EofLine(r0, r1) == [type |-> "eof", file |-> IF r1 < r0 THEN 1 ELSE 0]

\* The block comparison of the type in force, as [offset, count, overrun].
CompareBlock(m, bs, ct) ==
  IF ct = type_first_diff
  THEN block_compare_and_count(m, bs)
  ELSE [offset |-> block_compare(m, bs).offset, count |-> 0,
        overrun |-> block_compare(m, bs).overrun]

\* cmp () returns v: main goes on to close the descriptors.
Return(v) ==
  /\ pc' = "close"
  /\ exit_status' = v
  /\ f' = 0
  /\ exit_path' = exit_path

\* One iteration of cmp's do-while, both reads succeeding.
ReadLoop ==
  /\ pc = "read"
  /\ \E r0 \in {block_read(0, offset, buf_size)},
        r1 \in {block_read(1, offset, buf_size)} :
     \E m3 \in {Sentinels(Fill(Fill(mem, 0, 0, offset, r0),
                                BufBytes(buf_size), 1, offset, r1),
                           buf_size, r0, r1)} :
     \E d \in {CompareBlock(m3, buf_size, comparison_type)} :
     LET smaller == MIN(r0, r1)
         cn == char_number + d.offset
         ln == line_number + d.count
         found == d.offset < smaller
     IN  /\ read0' = r0
         /\ read1' = r1
         /\ offset' = [offset EXCEPT ![0] = @ + r0, ![1] = @ + r1]
         /\ mem' = m3
         /\ first_diff' = IF found /\ comparison_type = type_all_diffs
                          THEN smaller
                          ELSE d.offset
         /\ line_number' = ln
         /\ char_number' = IF found /\ comparison_type = type_all_diffs
                           THEN cn + (smaller - d.offset)
                           ELSE cn
         /\ IF d.overrun
            THEN /\ Exit(2, "overrun")
                 /\ UNCHANGED <<out, err, ret, f>>
            ELSE IF found /\ comparison_type # type_all_diffs
            THEN /\ out' = IF comparison_type = type_first_diff
                           THEN Append(out, DifferLine(m3, buf_size, d.offset,
                                                       cn, ln))
                           ELSE out
                 /\ Return(1)
                 /\ UNCHANGED <<err, ret>>
            ELSE /\ out' = IF found
                           THEN out \o AllDiffLines(m3, buf_size, d.offset,
                                                    smaller, cn)
                           ELSE out
                 /\ ret' = IF found THEN 1 ELSE ret
                 /\ IF r0 # r1
                    THEN /\ err' = IF comparison_type # type_status
                                   THEN Append(err, EofLine(r0, r1))
                                   ELSE err
                         /\ Return(1)
                    ELSE /\ err' = err
                         /\ IF r0 = buf_size
                            THEN UNCHANGED <<pc, exit_status, exit_path, f>>
                            ELSE Return(IF found THEN 1 ELSE ret)
  /\ did_read' = TRUE
  /\ UNCHANGED <<envVars, comparison_type, opened, closed, positioned,
                 position, ig, sp>>

\* block_read fails on operand g (after operand 0 was read, when g = 1).
ReadError(g) ==
  /\ pc = "read"
  /\ offset' = IF g = 1
               THEN [offset EXCEPT ![0] = @ + block_read(0, offset, buf_size)]
               ELSE offset
  /\ mem' = IF g = 1
            THEN Fill(mem, 0, 0, offset, block_read(0, offset, buf_size))
            ELSE mem
  /\ did_read' = TRUE
  /\ err' = Append(err, ErrorLine(g))
  /\ Exit(2, "read_error")
  /\ UNCHANGED <<envVars, comparison_type, opened, closed, positioned,
                 position, f, ig, cmpVars, out, sp>>

(* ------------------------------------------------------- the end of main *)

\* The loop going on without the close (the fault C6 must detect).
CloseFileNot ==
  /\ pc = "close"
  /\ closed' = closed
  /\ f' = IF f = 1 THEN 0 ELSE 1
  /\ pc' = IF f = 1 THEN "finish" ELSE "close"
  /\ UNCHANGED <<envVars, comparison_type, opened, offset, positioned,
                 position, mem, ig, cmpVars, did_read, out, err, exit_status,
                 exit_path, sp>>

\* close (file_desc[f]) == 0, one iteration of main's last for loop
CloseFile ==
  /\ pc = "close"
  /\ closed' = [closed EXCEPT ![f] = TRUE]
  /\ f' = IF f = 1 THEN 0 ELSE 1
  /\ pc' = IF f = 1 THEN "finish" ELSE "close"
  /\ UNCHANGED <<envVars, comparison_type, opened, offset, positioned,
                 position, mem, ig, cmpVars, did_read, out, err, exit_status,
                 exit_path, sp>>

\* close (file_desc[f]) != 0: error (2, errno, "%s", file[f])
CloseError ==
  /\ pc = "close"
  /\ err' = Append(err, ErrorLine(f))
  /\ Exit(2, "close_error")
  /\ UNCHANGED <<envVars, comparison_type, opened, closed, offset, positioned,
                 position, mem, f, ig, cmpVars, did_read, out, sp>>

\* main's last lines when check_stdout is not called or finds no error
Finish ==
  /\ pc = "finish"
  /\ Exit(exit_status, "normal")
  /\ UNCHANGED <<envVars, comparison_type, opened, closed, offset, positioned,
                 position, mem, f, ig, cmpVars, did_read, out, err, sp>>

\* check_stdout finds a write error or cannot close stdout: error (2, ...)
WriteError ==
  /\ pc = "finish"
  /\ exit_status # 0
  /\ comparison_type # type_status
  /\ err' = Append(err, [type |-> "error", file |-> 2])
  /\ Exit(2, "write_error")
  /\ UNCHANGED <<envVars, comparison_type, opened, closed, offset, positioned,
                 position, mem, f, ig, cmpVars, did_read, out, sp>>

\* The states in which main calls cmp (): both operands open, not the same
\* file, and under type_status with two regular files the remaining sizes
\* equal and file_position already called.  With ignore_initial = 0 cmp ()
\* never seeks, and one kind of operand is enumerated.
InitCmp ==
  /\ file = Pair("a", "b")
  /\ data \in [0..1 -> Streams]
  /\ kind \in [0..1 -> {"reg", "pipe"}]
  /\ same_inode = FALSE
  /\ requested \in Types
  /\ comparison_type = requested
  /\ ignore_initial \in 0..MaxIgnore
  /\ ignore_initial = 0 => kind = Pair("pipe", "pipe")
  /\ stdout_null = FALSE
  /\ buf_size \in 1..MaxBuf
  /\ opened = [g \in 0..1 |-> TRUE]
  /\ closed = [g \in 0..1 |-> FALSE]
  /\ LET sized == comparison_type = type_status /\ kind[0] = "reg"
                  /\ kind[1] = "reg"
         st0 == [positioned |-> [g \in 0..1 |-> FALSE],
                 position |-> [g \in 0..1 |-> 0],
                 offset |-> [g \in 0..1 |-> 0]]
         st == IF sized THEN file_position(file_position(st0, 0), 1) ELSE st0
     IN  /\ ~(sized /\ SizesDiffer(st))
         /\ positioned = st.positioned
         /\ position = st.position
         /\ offset = st.offset
  /\ \E fill \in Garbage : mem = [i \in MemIndex(buf_size) |-> fill]
  /\ pc = IF ignore_initial # 0 THEN "skip" ELSE "read"
  /\ f = 0
  /\ ig = 0
  /\ line_number = 1
  /\ char_number = ignore_initial + 1
  /\ read0 = 0
  /\ read1 = 0
  /\ first_diff = 0
  /\ ret = 0
  /\ did_read = FALSE
  /\ out = <<>>
  /\ err = <<>>
  /\ exit_status = -1
  /\ exit_path = "none"
  /\ sp = [c |-> 0, width |-> 0, buf |-> <<>>]

\* cmp () alone, its reads succeeding.
NextCmp ==
  \/ SkipInitial
  \/ DiscardRead
  \/ ReadLoop

SpecCmp == InitCmp /\ [][NextCmp]_vars

Init == InitProgram

Next ==
  \/ OpenFile
  \/ OpenError
  \/ FstatError
  \/ Prepare
  \/ SkipInitial
  \/ DiscardRead
  \/ DiscardError
  \/ ReadLoop
  \/ \E g \in 0..1 : ReadError(g)
  \/ CloseFile
  \/ CloseError
  \/ Finish
  \/ WriteError

Spec == Init /\ [][Next]_vars

(* ------------------------------------------------- what a run should give *)

\* The stream left of s once its first n bytes are removed.
Strip(s, n) == IF n >= Len(s) THEN <<>> ELSE SubSeq(s, n + 1, Len(s))

\* The two streams cmp () compares: the operands after the ignored prefix.
StreamA == Strip(data[0], ignore_initial)

StreamB == Strip(data[1], ignore_initial)

\* The 0-based positions, within the shared length, where a and b differ.
DiffPositions(a, b) ==
  {p \in 0..(MIN(Len(a), Len(b)) - 1) : a[p + 1] # b[p + 1]}

Least(S) == CHOOSE x \in S : \A y \in S : x <= y

\* Newline bytes among positions 0..k-1 of a.
NewlinesBefore(a, k) == Cardinality({p \in 0..(k - 1) : a[p + 1] = NL})

StrictPrefix(a, b) == Len(a) < Len(b) /\ a = SubSeq(b, 1, Len(a))

\* cmp () has returned.
CmpReturned == pc = "close"

\* C1: in first-difference mode, streams whose first difference is at
\* position k make cmp () print one line with character number
\* k + ignore_initial + 1 and line number 1 + (newlines among positions
\* 0..k-1), and return 1, whatever the block size and the ignored prefix.
C1_FirstDifference ==
  (pc \in {"close", "exit"} /\ comparison_type = type_first_diff
     /\ DiffPositions(StreamA, StreamB) # {})
  => LET k == Least(DiffPositions(StreamA, StreamB))
     IN  /\ CmpReturned
         /\ exit_status = 1
         /\ Len(out) = 1
         /\ out[1].type = "differ"
         /\ out[1].char = k + ignore_initial + 1
         /\ out[1].line = 1 + NewlinesBefore(StreamA, k)
         /\ out[1].c0 = StreamA[k + 1]
         /\ out[1].c1 = StreamB[k + 1]

\* C1's case: the common prefix spans two full blocks and holds a newline.
C1_Witness ==
  /\ CmpReturned
  /\ comparison_type = type_first_diff
  /\ DiffPositions(StreamA, StreamB) # {}
  /\ Least(DiffPositions(StreamA, StreamB)) >= 2 * buf_size
  /\ NewlinesBefore(StreamA, Least(DiffPositions(StreamA, StreamB))) >= 1
  /\ Len(out) = 1

\* C2: identical streams make cmp () return 0 and print nothing, neither a
\* difference line nor an EOF diagnostic, in each of the three modes.
C2_Identical ==
  (pc \in {"close", "exit"} /\ StreamA = StreamB)
  => /\ CmpReturned
     /\ exit_status = 0
     /\ out = <<>>
     /\ err = <<>>

\* C2's case: identical non-empty streams of exactly two blocks.
C2_Witness ==
  /\ CmpReturned
  /\ StreamA = StreamB
  /\ Len(StreamA) = 2 * buf_size
  /\ exit_status = 0

\* C3: when one stream is a strict prefix of the other, cmp () returns 1;
\* in first-difference and all-differences mode it prints exactly one EOF
\* diagnostic, naming the shorter operand, and no difference line; in
\* status-only mode it prints nothing.
C3_StrictPrefix ==
  (pc \in {"close", "exit"}
     /\ (StrictPrefix(StreamA, StreamB) \/ StrictPrefix(StreamB, StreamA)))
  => /\ CmpReturned
     /\ exit_status = 1
     /\ out = <<>>
     /\ err = IF comparison_type = type_status
              THEN <<>>
              ELSE <<[type |-> "eof",
                      file |-> IF Len(StreamA) < Len(StreamB) THEN 0 ELSE 1]>>

\* C3's case: the shorter stream is operand 1 and ends on a block boundary.
C3_Witness ==
  /\ CmpReturned
  /\ StrictPrefix(StreamB, StreamA)
  /\ Len(StreamB) = buf_size
  /\ comparison_type = type_all_diffs
  /\ Len(err) = 1

\* C4: in all-differences mode the lines printed over the whole run are
\* exactly the positions p below both lengths with A[p] # B[p], one line
\* each, in strictly increasing order, each with offset
\* p + ignore_initial + 1 and the bytes A[p], B[p]; cmp () returns 1 iff a
\* line was printed or the lengths differ.
C4_AllDifferences ==
  (pc \in {"close", "exit"} /\ comparison_type = type_all_diffs)
  => LET D == DiffPositions(StreamA, StreamB)
     IN  /\ CmpReturned
         /\ Len(out) = Cardinality(D)
         /\ \A i \in 1..Len(out) :
              /\ out[i].type = "byte"
              /\ (out[i].char - ignore_initial - 1) \in D
              /\ out[i].c0 = StreamA[out[i].char - ignore_initial]
              /\ out[i].c1 = StreamB[out[i].char - ignore_initial]
         /\ \A i, j \in 1..Len(out) : i < j => out[i].char < out[j].char
         /\ exit_status \in {0, 1}
         /\ (exit_status = 1)
              = (out # <<>> \/ Len(StreamA) # Len(StreamB))

\* C4's case: two differences in different blocks with an agreeing position
\* in the shared length, and the run went on after the first one.
C4_Witness ==
  /\ CmpReturned
  /\ comparison_type = type_all_diffs
  /\ Len(out) = 2
  /\ out[2].char - out[1].char >= buf_size
  /\ MIN(Len(StreamA), Len(StreamB)) = 3

\* The lines a comparison of a with b prints on standard output, position p
\* reported as p + base + 1.
RECURSIVE ExpectedByteLines(_, _, _, _)
ExpectedByteLines(a, b, p, base) ==
  IF p >= MIN(Len(a), Len(b))
  THEN <<>>
  ELSE (IF a[p + 1] # b[p + 1]
        THEN <<[type |-> "byte", char |-> p + base + 1, c0 |-> a[p + 1],
                c1 |-> b[p + 1]]>>
        ELSE <<>>)
       \o ExpectedByteLines(a, b, p + 1, base)

ExpectedOut(type, a, b, base) ==
  IF type = type_status
  THEN <<>>
  ELSE IF type = type_all_diffs
  THEN ExpectedByteLines(a, b, 0, base)
  ELSE IF DiffPositions(a, b) = {}
  THEN <<>>
  ELSE LET k == Least(DiffPositions(a, b))
       IN  <<[type |-> "differ", char |-> k + base + 1,
              line |-> 1 + NewlinesBefore(a, k), c0 |-> a[k + 1],
              c1 |-> b[k + 1]]>>

\* The EOF diagnostic of a comparison of a with b: when the lengths differ
\* and the run gets to the end of the shorter stream.
ExpectedErr(type, a, b) ==
  IF /\ type # type_status
     /\ Len(a) # Len(b)
     /\ (type = type_all_diffs \/ DiffPositions(a, b) = {})
  THEN <<[type |-> "eof", file |-> IF Len(a) < Len(b) THEN 0 ELSE 1]>>
  ELSE <<>>

ExpectedStatus(a, b) == IF a = b THEN 0 ELSE 1

\* What comparing a with b gives, positions counted from base.
Expected(type, a, b, base) ==
  [status |-> ExpectedStatus(a, b), out |-> ExpectedOut(type, a, b, base),
   err |-> ExpectedErr(type, a, b)]

Result == [status |-> exit_status, out |-> out, err |-> err]

\* C5 as stated: with ignore_initial = n the result, exit status and
\* reported positions, is that of comparing the two streams with their first
\* n bytes removed.
C5_AsStated ==
  pc \in {"close", "exit"}
  => Result = Expected(comparison_type, StreamA, StreamB, 0)

\* C5 as amended: with ignore_initial = n the exit status, the diagnostics,
\* the reported line number and the reported bytes are those of comparing
\* the two streams with their first n bytes removed, and every reported
\* character number is that comparison's plus n; this holds whether a stream
\* was skipped by lseek or by reading and discarding, and a stream that ends
\* inside the ignored prefix is no error.
C5_SkipEquivalence ==
  pc \in {"close", "exit"}
  => /\ CmpReturned
     /\ Result = Expected(comparison_type, StreamA, StreamB, ignore_initial)

\* C5's case: operand 0 skipped by lseek, operand 1 by two discarding reads,
\* and a position reported.
C5_Witness ==
  /\ CmpReturned
  /\ ignore_initial = 2
  /\ buf_size = 1
  /\ kind = Pair("reg", "pipe")
  /\ out # <<>>

\* Reached as well: a pipe that ends inside its ignored prefix.
C5_PrematureEof ==
  /\ CmpReturned
  /\ kind = Pair("pipe", "pipe")
  /\ Len(data[0]) < ignore_initial
  /\ Len(data[1]) > ignore_initial

(* ------------------------------------------------------ the whole program *)

Exited == pc = "exit"

C7_UpgradeIsSilent ==
  (Exited /\ exit_path \in {"normal", "size"} /\ stdout_null)
  => /\ exit_status = ExpectedStatus(StreamA, StreamB)
     /\ err = ExpectedErr(requested, StreamA, StreamB)

\* Without the upgrade the requested mode gives that status and that text.
C7_RequestedModeReference ==
  (Exited /\ exit_path = "normal" /\ ~stdout_null)
  => /\ exit_status = ExpectedStatus(StreamA, StreamB)
     /\ err = ExpectedErr(requested, StreamA, StreamB)

\* main got past the size test of type_status.
PastSizeTest == buf_size # 0

BothRegular == kind[0] = "reg" /\ kind[1] = "reg"

\* max (0, size - position) of operand g
Remaining(g) == MAX(0, Len(data[g]) - position[g])

\* C10: under type_status with two regular files main exits 1 before any
\* read exactly when the remaining sizes differ; whenever it does, the
\* streams the read loop would compare differ, and the exit status of a run
\* without I/O error is the same in every mode.
C10_SizeShortcut ==
  /\ (Exited /\ exit_path = "size")
       => /\ exit_status = 1
          /\ ~did_read
          /\ comparison_type = type_status
          /\ BothRegular
          /\ Remaining(0) # Remaining(1)
          /\ ExpectedStatus(StreamA, StreamB) = 1
  /\ (PastSizeTest /\ comparison_type = type_status /\ BothRegular)
       => Remaining(0) = Remaining(1)
  /\ (Exited /\ exit_path \in {"normal", "size"})
       => exit_status = ExpectedStatus(StreamA, StreamB)

\* C10's case: the size test ended a status-only run that ignores a prefix.
C10_Witness ==
  /\ Exited
  /\ exit_path = "size"
  /\ requested = type_status
  /\ ignore_initial > 0
  /\ position[0] > 0
  /\ exit_status = 1

\* Reached as well: both files end inside the ignored prefix, their sizes
\* differ, and the run goes on to the read loop.
C10_ClampCase ==
  /\ Exited
  /\ exit_path = "normal"
  /\ comparison_type = type_status
  /\ BothRegular
  /\ Len(data[0]) # Len(data[1])
  /\ exit_status = 0

(* ------------------------------------------------------------- sprintc *)

\* ISPRINT (c) in the C locale
ISPRINT(c) == 32 <= c /\ c <= 126

\* width - 1 spaces: while (--width > 0) *buf++ = ' ';
Spaces(width) == [i \in 1..MAX(0, width - 1) |-> 32]

\* sprintc without c -= 128 (the fault C8 must detect).
sprintc_high_kept(width, c) ==
  IF ISPRINT(c)
  THEN <<c>> \o Spaces(width)
  ELSE IF c >= 128
  THEN <<77, 45, c>> \o Spaces(width - 2)
  ELSE IF c < 32
  THEN <<94, c + 64>> \o Spaces(width - 1)
  ELSE <<94, 63>> \o Spaces(width - 1)

\* The characters sprintc (buf, width, c) puts into buf before the NUL.
sprintc(width, c) ==
  IF ISPRINT(c)
  THEN <<c>> \o Spaces(width)
  ELSE LET high == c >= 128
           c1 == IF high THEN c - 128 ELSE c
           w1 == IF high THEN width - 2 ELSE width
           p1 == IF high THEN <<77, 45>> ELSE <<>>
       IN  IF c1 < 32
           THEN p1 \o <<94, c1 + 64>> \o Spaces(w1 - 1)
           ELSE IF c1 = 127
           THEN p1 \o <<94, 63>> \o Spaces(w1 - 1)
           ELSE p1 \o <<c1>> \o Spaces(w1)

\* The variables of a running comparison, at rest.
AtRest ==
  /\ file = Pair("a", "b")
  /\ data = [g \in 0..1 |-> <<>>]
  /\ kind = Pair("reg", "reg")
  /\ same_inode = FALSE
  /\ stdout_null = FALSE
  /\ ignore_initial = 0
  /\ opened = [g \in 0..1 |-> FALSE]
  /\ closed = [g \in 0..1 |-> FALSE]
  /\ offset = [g \in 0..1 |-> 0]
  /\ positioned = [g \in 0..1 |-> FALSE]
  /\ position = [g \in 0..1 |-> 0]
  /\ f = 0
  /\ ig = 0
  /\ char_number = 0
  /\ ret = 0
  /\ did_read = FALSE
  /\ out = <<>>
  /\ err = <<>>
  /\ exit_status = -1

restVars == <<file, data, kind, same_inode, stdout_null, ignore_initial,
              opened, closed, offset, positioned, position, f, ig,
              char_number, ret, did_read, out, err, exit_status>>

\* sprintc is called with width 0 or 4 (lines 366, 367, 394, 395).
InitSprintc ==
  /\ AtRest
  /\ pc = "sprintc"
  /\ sp \in [c : 0..255, width : {0, 4}, buf : {<<>>}]
  /\ requested = type_all_diffs
  /\ comparison_type = type_all_diffs
  /\ buf_size = 0
  /\ mem = <<>>
  /\ line_number = 0
  /\ read0 = 0
  /\ read1 = 0
  /\ first_diff = 0
  /\ exit_path = "none"

CallSprintc ==
  /\ pc = "sprintc"
  /\ sp' = [sp EXCEPT !.buf = sprintc(sp.width, sp.c)]
  /\ pc' = "sprintc_done"
  /\ UNCHANGED <<restVars, requested, comparison_type, buf_size, mem,
                 line_number, read0, read1, first_diff, exit_path>>

SpecSprintc == InitSprintc /\ [][CallSprintc]_vars

\* s padded on the right with spaces to width characters
Padded(s, width) == s \o [i \in 1..MAX(0, width - Len(s)) |-> 32]

\* The control-quoting of a 7-bit value: ^ and the character 64 above a
\* control character, ^? for 127, the character itself otherwise.
Quote7(x) ==
  IF x < 32 THEN <<94, x + 64>> ELSE IF x = 127 THEN <<94, 63>> ELSE <<x>>

\* C8 as stated: byte 200 is rendered as M-^H.
C8_AsStated ==
  (pc = "sprintc_done" /\ sp.width = 0)
  => /\ sp.c = 0 => sp.buf = <<94, 64>>
     /\ sp.c = 10 => sp.buf = <<94, 74>>
     /\ sp.c = 127 => sp.buf = <<94, 63>>
     /\ sp.c = 200 => sp.buf = <<77, 45, 94, 72>>

\* C8 as amended: with bytes 32..126 the printable ones, byte 0 is rendered
\* as ^@, byte 10 as ^J, byte 127 as ^?, and byte 200 as M-H (it is byte 136
\* that gives M-^H): a byte with the high bit set is rendered as M- followed
\* by the control-quoting of its low 7 bits, and every rendering is padded
\* on the right with spaces to the width asked for.
C8_QuotedBytes ==
  pc = "sprintc_done"
  => /\ sp.c = 0 => sp.buf = Padded(<<94, 64>>, sp.width)
     /\ sp.c = 10 => sp.buf = Padded(<<94, 74>>, sp.width)
     /\ sp.c = 127 => sp.buf = Padded(<<94, 63>>, sp.width)
     /\ sp.c = 200 => sp.buf = Padded(<<77, 45, 72>>, sp.width)
     /\ sp.c = 136 => sp.buf = Padded(<<77, 45, 94, 72>>, sp.width)
     /\ sp.c >= 128
          => sp.buf = Padded(<<77, 45>> \o Quote7(sp.c - 128), sp.width)
     /\ sp.c < 128 => sp.buf = Padded(Quote7(sp.c), sp.width)

\* C8's case: byte 200 was rendered.
C8_Witness ==
  /\ pc = "sprintc_done"
  /\ sp.c = 200
  /\ sp.width = 0
  /\ Len(sp.buf) = 3

(* ------------------------------------------------- the block comparators *)

\* What a buffer may hold when the sentinels are written: newline or its
\* complement, in every position.
BlockBytes == {NL, Complement(NL)}

InitBlock ==
  /\ AtRest
  /\ pc = "sentinels"
  /\ buf_size \in 1..MaxBuf
  /\ mem \in [MemIndex(buf_size) -> BlockBytes]
  /\ read0 \in 0..buf_size
  /\ read1 \in 0..buf_size
  /\ requested \in {type_first_diff, type_all_diffs}
  /\ comparison_type = requested
  /\ line_number = 0
  /\ first_diff = 0
  /\ exit_path = "none"
  /\ sp = [c |-> 0, width |-> 0, buf |-> <<>>]

\* Lines 332-333.
InsertSentinels ==
  /\ pc = "sentinels"
  /\ mem' = Sentinels(mem, buf_size, read0, read1)
  /\ pc' = "compare"
  /\ UNCHANGED <<restVars, requested, comparison_type, buf_size, line_number,
                 read0, read1, first_diff, exit_path, sp>>

\* Lines 338-340.
CompareBlocks ==
  /\ pc = "compare"
  /\ \E d \in {CompareBlock(mem, buf_size, comparison_type)} :
       /\ first_diff' = d.offset
       /\ line_number' = line_number + d.count
       /\ exit_path' = IF d.overrun THEN "overrun" ELSE "none"
  /\ pc' = "compared"
  /\ UNCHANGED <<restVars, requested, comparison_type, buf_size, mem, read0,
                 read1, sp>>

NextBlock ==
  \/ InsertSentinels
  \/ CompareBlocks

SpecBlock == InitBlock /\ [][NextBlock]_vars

\* The buffers differ at index i.
DiffersAt(i) == Buf0(mem, buf_size, i) # Buf1(mem, buf_size, i)

\* C9: after the two sentinel writes, whatever the read lengths and the
\* buffers held, block_compare and block_compare_and_count return the least
\* index at which the buffers differ; it is at most min (read0, read1), and
\* equals it exactly when the buffers agree on their first
\* min (read0, read1) bytes; no scan leaves the words_per_buffer words of a
\* buffer; and the count is that of the newlines before that index.
C9_SentinelsStopTheScan ==
  pc = "compared"
  => /\ exit_path # "overrun"
     /\ first_diff \in 0..(BufBytes(buf_size) - 1)
     /\ DiffersAt(first_diff)
     /\ \A i \in 0..(first_diff - 1) : ~DiffersAt(i)
     /\ first_diff <= MIN(read0, read1)
     /\ (first_diff = MIN(read0, read1))
          = (\A i \in 0..(MIN(read0, read1) - 1) : ~DiffersAt(i))
     /\ first_diff \div WordSize < words_per_buffer(buf_size)
     /\ comparison_type = type_first_diff
          => line_number
               = Cardinality({i \in 0..(first_diff - 1) :
                                Buf0(mem, buf_size, i) = NL})

\* C9's case: two full blocks that agree, so that only the sentinels differ,
\* with a newline counted.
C9_Witness ==
  /\ pc = "compared"
  /\ read0 = buf_size
  /\ read1 = buf_size
  /\ first_diff = buf_size
  /\ comparison_type = type_first_diff
  /\ line_number >= 1

====
